---- MODULE Spec2Model ----
(***************************************************************************)
(* Model of src/vmanage_async.py: the Vmanage client (login handshake,     *)
(* request layer get/post, the semaphore-bounded get_all executor, the     *)
(* device inventory merge of get_devices and the per-device accessors).    *)
(*                                                                         *)
(* Texts (response bodies, header values, model strings) are sequences of  *)
(* tokens; a Python dict is a function whose DOMAIN is its key set; the    *)
(* asyncio event loop is its FIFO ready queue plus the I/O completions,    *)
(* which arrive in any order.                                              *)
(***************************************************************************)
EXTENDS Integers, Sequences, FiniteSets, TLC

VARIABLES
    phase,      \* "new" before __init__, "ready" after it returned, "raised" if it raised
    connected,  \* self.connected
    headers,    \* self.headers (a dict; <<>> while the attribute is not set)
    base_url,   \* self.base_url, as a sequence of path segments after the origin
    semaphore,  \* self.semaphore, the concurrency limit given to the constructor
    loginResp,  \* the controller's answer to the login POST
    tokenResp,  \* the controller's answer to the token GET
    initErr,    \* the exception __init__ raised, "none" otherwise
    sent,       \* every request handed to the transport so far
    calls,      \* the accessor calls of the application, one per slot
    ops,        \* the sem_task coroutines of the running get_all
    semValue,   \* the free permits of the asyncio.Semaphore of the running get_all
    waiters,    \* the FIFO of sem_tasks blocked in semaphore.acquire()
    ready,      \* the event loop's FIFO of callbacks ready to run
    gather,     \* the outer future of asyncio.gather and what the caller got from it
    finished,   \* the sem_tasks of the running get_all in the order they finished
    rawLists,   \* the three raw inventory lists handed to the device merge
    devOut      \* what the device merge made of rawLists

vars == <<phase, connected, headers, base_url, semaphore, loginResp, tokenResp,
          initErr, sent, calls, ops, semValue, waiters, ready, gather,
          finished, rawLists, devOut>>

clientVars == <<phase, connected, headers, base_url, semaphore, loginResp,
                tokenResp, initErr>>
batchVars == <<ops, semValue, waiters, ready, gather, finished>>
mergeVars == <<rawLists, devOut>>

----------------------------------------------------------------------------
(* Bounds *)

MaxCalls == 2      \* application call slots
MaxOps == 3        \* largest batch handed to get_all directly
MaxSem == 2        \* largest concurrency limit given to the constructor
MaxList == 2       \* longest raw inventory list

(* Program constants *)

StatusOK == 200
DevicesFanOut == 3

----------------------------------------------------------------------------
(* Python values.  None, lists and the other payloads are tagged so that    *)
(* values of different Python types can be told apart.                      *)

None == [t |-> "none", v |-> <<>>]
List(s) == [t |-> "list", v |-> s]
Other(s) == [t |-> "str", v |-> <<s>>]

\* Python truthiness of a payload: None, [] and "" are falsy
Truthy(x) == x.t # "none" /\ Len(x.v) > 0

\* what an awaited coroutine gives its caller: a value or an exception
Ret(x) == [tag |-> "return", val |-> x, err |-> "none"]
Raise(e) == [tag |-> "raise", val |-> None, err |-> e]
Pending == [tag |-> "pending", val |-> None, err |-> "none"]

\* a str|None as returned by __get and __post
NoText == [some |-> FALSE, s |-> <<>>]
Text(s) == [some |-> TRUE, s |-> s]

\* dict helpers
Has(d, k) == k \in DOMAIN d
DictMerge(a, b) == [k \in DOMAIN a \cup DOMAIN b |-> IF k \in DOMAIN b THEN b[k] ELSE a[k]]

Last(s) == s[Len(s)]

----------------------------------------------------------------------------
(* The controller's answers *)

\* an answer of the transport: a response, or a transport-level failure
\* (httpx.HTTPError).  setCookie is the Set-Cookie header as its ";"-separated
\* segments, <<>> when the response carries no such header.
Response(st, txt, ck) == [err |-> FALSE, status |-> st, text |-> txt, setCookie |-> ck]
TransportError == [err |-> TRUE, status |-> 0, text |-> <<>>, setCookie |-> <<>>]
NotAsked == [err |-> FALSE, status |-> -1, text |-> <<>>, setCookie |-> <<>>]

Statuses == {StatusOK, 403}
LoginTexts == {<<>>, <<"<html>", "login">>, <<"<!DOCTYPE html>", "<html>">>}
CookieHeaders == {<<>>, <<"JSESSIONID=a", "Path=/", "HttpOnly">>}
TokenTexts == {<<"tok1">>}

LoginResponses ==
    {TransportError} \cup
    {Response(st, txt, ck) : st \in Statuses, txt \in LoginTexts, ck \in CookieHeaders}
TokenResponses ==
    {TransportError} \cup {Response(st, txt, <<>>) : st \in Statuses, txt \in TokenTexts}

\* the JSON token of a one-element data list of the endpoint an accessor asks
ElementToken(kind) ==
    CASE kind = "get_device_interfaces" -> "[if]"
      [] kind = "get_device_tlocs" -> "[tloc]"
      [] kind = "get_device_vrrp" -> "[vrrp]"
      [] OTHER -> "[e]"

\* response bodies of a data endpoint, as token sequences:
\*   ""   {"data": []}   {"data": [<element>]}   {"error": "x"}
\*   {"metadata": "x"}   []   <html> no data
Bodies(kind) == {
    <<>>,
    <<"{", "data", "[]", "}">>,
    <<"{", "data", ElementToken(kind), "}">>,
    <<"{", "error", "x", "}">>,
    <<"{", "metadata", "x", "}">>,
    <<"[]">>,
    <<"<html>", "no", "data">> }

DataResponses(kind) ==
    {TransportError} \cup {Response(403, <<>>, <<>>)} \cup
    {Response(StatusOK, b, <<>>) : b \in Bodies(kind)}

\* a device as /system/device/vedges lists it
DevE == [uuid |-> "u1", personality |-> "vedge", validity |-> "valid"]

\* an interface as /device/interface/synced lists it (no description)
IfE ==
    [ifname |-> "ge0/0", hwaddr |-> "52:54:00:aa:bb:cc"] @@
    ("interface-type" :> "physical") @@ ("vpn-id" :> "0") @@
    ("ip-address" :> <<10, 0, 0, 5>>) @@ ("ipv4-subnet-mask" :> <<255, 255, 255, 0>>)

\* a TLOC as /device/omp/tlocs/advertised lists it
TlocE ==
    [ip |-> <<10, 0, 0, 1>>, preference |-> "0", weight |-> "1", encap |-> "ipsec",
     color |-> "MPLS"] @@
    ("site-id" :> "100") @@ ("tloc-private-ip" :> <<192, 168, 0, 1>>) @@
    ("tloc-public-ip" :> <<192, 168, 0, 1>>)

\* a virtual IP as /device/vrrp lists it
VrrpE ==
    [priority |-> "100", preempt |-> "true"] @@
    ("vrrp-state" :> "proto-state-master") @@ ("if-name" :> "ge0/1") @@
    ("virtual-ip" :> <<10, 0, 1, 254>>) @@ ("group-id" :> "1")

\* json: the Python value a JSON value token stands for
JsonValue(tok) ==
    CASE tok = "[]" -> List(<<>>)
      [] tok = "[e]" -> List(<<DevE>>)
      [] tok = "[if]" -> List(<<IfE>>)
      [] tok = "[tloc]" -> List(<<TlocE>>)
      [] tok = "[vrrp]" -> List(<<VrrpE>>)
      [] OTHER -> Other(tok)

----------------------------------------------------------------------------
(* Session Authenticator: Vmanage.__init__ and Vmanage.__login *)

Origin == <<"https://host:port">>

Request(m, u, h, who) == [method |-> m, url |-> u, hdrs |-> h, by |-> who]

\* str.startswith
StartsWith(txt, tok) == Len(txt) > 0 /\ txt[1] = tok

\* login is accepted: status 200 and the body does not start with <html>
LoginAccepted(lr) == lr.status = StatusOK /\ ~StartsWith(lr.text, "<html>")

\* response.headers.get('Set-Cookie').split(";")[0]
SessionCookie(ck) == Head(ck)

FormHeaders == ("Content-Type" :> "application/x-www-form-urlencoded")
CookieHeadersOf(ck) == ("Content-Type" :> "application/json") @@ ("Cookie" :> SessionCookie(ck))
AddToken(h, txt) == ("X-XSRF-TOKEN" :> txt) @@ h

TokenAccepted(tr) == tr.status = StatusOK

\* __login(username, password) on the answers lr (login POST) and tr (token
\* GET): what it returns or raises, the fields it leaves and what it sent
Login(lr, tr) ==
    LET post == Request("POST", Origin \o <<"j_security_check">>, FormHeaders, <<0, 1>>)
        hdr  == CookieHeadersOf(lr.setCookie)
        get  == Request("GET", Origin \o <<"dataservice", "client", "token">>, hdr, <<0, 2>>)
        Out(o, h, b, s, t) == [out |-> o, headers |-> h, base_url |-> b, sent |-> s, token |-> t]
    IN  IF lr.err THEN Out(Raise("ConnectionError"), <<>>, Origin, {post}, NotAsked)
        ELSE IF ~LoginAccepted(lr) THEN Out(Ret(FALSE), <<>>, Origin, {post}, NotAsked)
        ELSE IF lr.setCookie = <<>> THEN Out(Raise("AttributeError"), <<>>, Origin, {post}, NotAsked)
        ELSE IF tr.err THEN Out(Raise("ConnectionError"), hdr, Origin, {post, get}, tr)
        ELSE IF TokenAccepted(tr)
             THEN Out(Ret(TRUE), AddToken(hdr, tr.text), Origin \o <<"dataservice">>, {post, get}, tr)
             ELSE Out(Ret(FALSE), hdr, Origin, {post, get}, tr)

----------------------------------------------------------------------------
(* Typed Request Layer: __get, __post, get, post *)

\* a request layer that does not look at the connected flag
PrivGuardMissing(conn) == TRUE

\* __get / __post: the request is attempted only on a connected client
PrivGuard(conn) == conn

\* a request that leaves the CSRF token out
RequestHeadersNoToken(h) == [k \in DOMAIN h \ {"X-XSRF-TOKEN"} |-> h[k]]

\* the headers a data request carries
RequestHeaders(h) == h

\* a request layer that turns a transport failure into "no data"
PrivResultSwallow(resp) ==
    IF ~resp.err /\ resp.status = StatusOK
    THEN [tag |-> "return", text |-> Text(resp.text), err |-> "none"]
    ELSE [tag |-> "return", text |-> NoText, err |-> "none"]

\* __get / __post after the transport answered
PrivResult(resp) ==
    IF resp.err THEN [tag |-> "raise", text |-> NoText, err |-> "ConnectionError"]
    ELSE IF resp.status = StatusOK THEN [tag |-> "return", text |-> Text(resp.text), err |-> "none"]
    ELSE [tag |-> "return", text |-> NoText, err |-> "none"]

\* a request layer that sends the request again after a transport failure
ResendOnError(p) == p.tag = "raise"

\* __get / __post have no loop around the request: whatever the transport
\* answered, the request is not sent again
Resend(p) == FALSE

\* __get / __post on a client that is not connected
PrivSkipped == [tag |-> "return", text |-> NoText, err |-> "none"]

\* the tokens whose text has "data" as a substring
DataWords == {"data", "metadata"}

\* 'data' in response, on the text
ContainsData(txt) == \E i \in 1..Len(txt) : txt[i] \in DataWords

IsJsonObject(txt) == Len(txt) >= 2 /\ txt[1] = "{" /\ Last(txt) = "}" /\ Len(txt) % 2 = 0
IsJsonArray(txt) == txt = <<"[]">>
JsonKeys(txt) == {txt[2 * j] : j \in 1..((Len(txt) - 2) \div 2)}
JsonMember(txt, k) ==
    LET js == {j \in 1..((Len(txt) - 2) \div 2) : txt[2 * j] = k}
        j  == CHOOSE x \in js : \A y \in js : y <= x
    IN  txt[2 * j + 1]

\* json.loads(response)['data']
Unwrap(txt) ==
    IF IsJsonObject(txt)
    THEN IF "data" \in JsonKeys(txt) THEN Ret(JsonValue(JsonMember(txt, "data")))
         ELSE Raise("KeyError")
    ELSE IF IsJsonArray(txt) THEN Raise("TypeError")
    ELSE Raise("JSONDecodeError")

\* truthiness of a str|None
TextTruthy(t) == t.some /\ Len(t.s) > 0

\* get(endpoint, params), given what __get did
PublicGet(p) ==
    IF p.tag = "raise" THEN Raise(p.err)
    ELSE IF TextTruthy(p.text) /\ ContainsData(p.text.s) THEN Unwrap(p.text.s)
    ELSE Ret(None)

\* post(endpoint, params, data), given what __post did
PublicPost(p) ==
    IF p.tag = "raise" THEN Raise(p.err)
    ELSE IF TextTruthy(p.text) THEN Unwrap(p.text.s)
    ELSE Ret(None)

----------------------------------------------------------------------------
(* Domain normalizers *)

\* an address text is a dotted quad, given as its four numbers
IsAddress(x) == Len(x) = 4 /\ \A i \in 1..4 : x[i] \in 0..255

\* IPv4Address(text), for a text that parses
IPv4Address(x) == <<"IPv4Address", x>>

\* the bits of a netmask octet, -1 for an octet no netmask has
MaskBits(o) ==
    CASE o = 0 -> 0 [] o = 128 -> 1 [] o = 192 -> 2 [] o = 224 -> 3 [] o = 240 -> 4
      [] o = 248 -> 5 [] o = 252 -> 6 [] o = 254 -> 7 [] o = 255 -> 8 [] OTHER -> -1

IsNetmask(m) ==
    /\ Len(m) = 4
    /\ \A i \in 1..4 : MaskBits(m[i]) >= 0
    /\ \A i \in 1..3 : m[i] # 255 => m[i + 1] = 0

RECURSIVE BitAnd(_, _)
BitAnd(a, b) == IF a = 0 \/ b = 0 THEN 0
                ELSE 2 * BitAnd(a \div 2, b \div 2) + (a % 2) * (b % 2)

\* IPv4Network(f"{ip}/{mask}", strict=False): the host bits are masked off
IPv4Network(ip, m) ==
    <<"IPv4Network", [i \in 1..4 |-> BitAnd(ip[i], m[i])],
      MaskBits(m[1]) + MaskBits(m[2]) + MaskBits(m[3]) + MaskBits(m[4])>>

\* str.lower() on the colours the controller uses
Lower(x) ==
    CASE x = "MPLS" -> "mpls" [] x = "Biz-Internet" -> "biz-internet" [] OTHER -> x

\* the first of the keys, in the order the constructor subscripts them, that
\* the element lacks
MissingKey(e, keys) == \E i \in 1..Len(keys) : ~Has(e, keys[i])

\* InterfaceData(...) of one raw element
InterfaceData(e) ==
    IF MissingKey(e, <<"ifname", "interface-type", "hwaddr", "vpn-id", "ip-address">>)
    THEN Raise("KeyError")
    ELSE IF ~IsAddress(e["ip-address"]) THEN Raise("AddressValueError")
    ELSE IF ~Has(e, "ipv4-subnet-mask") THEN Raise("KeyError")
    ELSE IF ~IsNetmask(e["ipv4-subnet-mask"]) THEN Raise("NetmaskValueError")
    ELSE Ret([ if_name  |-> e["ifname"],
               if_desc  |-> IF Has(e, "description") THEN e["description"] ELSE "N/A",
               if_type  |-> e["interface-type"],
               if_mac   |-> e["hwaddr"],
               vpn_id   |-> e["vpn-id"],
               ip       |-> IPv4Address(e["ip-address"]),
               network  |-> IPv4Network(e["ip-address"], e["ipv4-subnet-mask"]),
               raw_data |-> e ])

\* TlocData(...) of one raw element
TlocData(e) ==
    IF MissingKey(e, <<"site-id", "ip">>) THEN Raise("KeyError")
    ELSE IF ~IsAddress(e["ip"]) THEN Raise("AddressValueError")
    ELSE IF ~Has(e, "tloc-private-ip") THEN Raise("KeyError")
    ELSE IF ~IsAddress(e["tloc-private-ip"]) THEN Raise("AddressValueError")
    ELSE IF ~Has(e, "tloc-public-ip") THEN Raise("KeyError")
    ELSE IF ~IsAddress(e["tloc-public-ip"]) THEN Raise("AddressValueError")
    ELSE IF MissingKey(e, <<"preference", "weight", "encap", "color">>) THEN Raise("KeyError")
    ELSE Ret([ site_id       |-> e["site-id"],
               system_ip     |-> IPv4Address(e["ip"]),
               private_ip    |-> IPv4Address(e["tloc-private-ip"]),
               public_ip     |-> IPv4Address(e["tloc-public-ip"]),
               preference    |-> e["preference"],
               weight        |-> e["weight"],
               encapsulation |-> e["encap"],
               color         |-> Lower(e["color"]),
               raw_data      |-> e ])

\* VrrpData(...) of one raw element
VrrpData(e) ==
    IF MissingKey(e, <<"vrrp-state", "if-name", "virtual-ip">>) THEN Raise("KeyError")
    ELSE IF ~IsAddress(e["virtual-ip"]) THEN Raise("AddressValueError")
    ELSE IF MissingKey(e, <<"group-id", "priority", "preempt">>) THEN Raise("KeyError")
    ELSE Ret([ if_name  |-> e["if-name"],
               ip       |-> IPv4Address(e["virtual-ip"]),
               group    |-> e["group-id"],
               priority |-> e["priority"],
               preempt  |-> e["preempt"],
               master   |-> e["vrrp-state"] = "proto-state-master",
               raw_data |-> e ])

\* the record constructor of a per-device accessor
RecordOf(kind, e) ==
    CASE kind = "get_device_interfaces" -> InterfaceData(e)
      [] kind = "get_device_tlocs" -> TlocData(e)
      [] OTHER -> VrrpData(e)

\* get_device_interfaces / get_device_tlocs / get_device_vrrp, given what get
\* did: None for a falsy payload, otherwise one record per raw element, or the
\* error of the first element whose record cannot be built
ListAccessor(kind, o) ==
    IF o.tag = "raise" THEN Raise(o.err)
    ELSE IF ~Truthy(o.val) THEN Ret(None)
    ELSE IF o.val.t # "list" THEN Raise("TypeError")
    ELSE LET bad == {i \in 1..Len(o.val.v) : RecordOf(kind, o.val.v[i]).tag = "raise"}
         IN  IF bad # {}
             THEN RecordOf(kind, o.val.v[CHOOSE i \in bad : \A j \in bad : i <= j])
             ELSE Ret(List([i \in 1..Len(o.val.v) |-> RecordOf(kind, o.val.v[i]).val]))

\* Python falsiness of a str|None field
Falsy(x) == x \in {"None", ""}

\* get_device_template_values: no request for a device lacking an identifier
TemplateGuard(dev) == Falsy(dev.uuid) \/ Falsy(dev.template_id)

\* get_device_template_values, given what post did: raw_data[0] under the
\* blanket except (post itself is awaited outside the try)
TemplateResult(o) ==
    IF o.tag = "raise" THEN Raise(o.err)
    ELSE IF o.val.t = "list" /\ Len(o.val.v) > 0 THEN Ret([t |-> "dict", v |-> <<o.val.v[1]>>])
    ELSE IF o.val.t = "str" /\ o.val.v[1] # "" THEN Ret(o.val)
    ELSE Ret(None)

\* { e["uuid"]: e for e in lst }: the last element wins for a repeated key
ByUuid(lst) ==
    [u \in {lst[i]["uuid"] : i \in 1..Len(lst)} |->
        LET is == {i \in 1..Len(lst) : lst[i]["uuid"] = u}
        IN  lst[CHOOSE i \in is : \A j \in is : j <= i]]

\* a merge in which the inventory record wins over the status record
MergeInventoryBaseWins(controllers, vedges, statuses) ==
    LET merged == DictMerge(controllers, vedges)
    IN  [e \in DOMAIN merged |->
            IF e \in DOMAIN statuses THEN DictMerge(statuses[e], merged[e]) ELSE merged[e]]

\* merged = controllers | vedges, then the status overlay
MergeInventory(controllers, vedges, statuses) ==
    LET merged == DictMerge(controllers, vedges)
    IN  [e \in DOMAIN merged |->
            IF e \in DOMAIN statuses THEN DictMerge(merged[e], statuses[e]) ELSE merged[e]]

\* str.replace("vedge-", "").replace("cloud", "vbond") on the model string
ModelName(m) ==
    LET cut == SelectSeq(m, LAMBDA tok : tok # "vedge-")
    IN  [i \in 1..Len(cut) |-> IF cut[i] = "cloud" THEN "vbond" ELSE cut[i]]

Opt(v, k) == IF Has(v, k) THEN v[k] ELSE "None"

\* a comparison that takes a sentinel in any letter case
StrEqAnyCase(a, b) == Lower(a) = Lower(b) \/ (a = "Valid" /\ b = "valid")
                      \/ (a = "in sync" /\ b = "In Sync")

\* == on two strings
StrEq(a, b) == a = b

\* DeviceData(...) of one merged raw payload that has the keys it subscripts
DeviceData(v) ==
    [ uuid          |-> v["uuid"],
      persona       |-> v["personality"],
      system_ip     |-> IF Has(v, "system-ip") THEN IPv4Address(v["system-ip"]) ELSE <<"None">>,
      hostname      |-> Opt(v, "host-name"),
      site_id       |-> Opt(v, "site-id"),
      model         |-> IF Has(v, "deviceModel") THEN ModelName(v["deviceModel"]) ELSE <<"None">>,
      version       |-> Opt(v, "version"),
      template_id   |-> Opt(v, "templateId"),
      template_name |-> Opt(v, "template"),
      is_managed    |-> Has(v, "managed-by") /\ ~StrEq(v["managed-by"], "Unmanaged"),
      is_valid      |-> StrEq(v["validity"], "valid"),
      is_sync       |-> Has(v, "configStatusMessage") /\ StrEq(v["configStatusMessage"], "In Sync"),
      is_reachable  |-> Has(v, "reachability") /\ StrEq(v["reachability"], "reachable"),
      latitude      |-> IF Has(v, "latitude") THEN v["latitude"] ELSE "0.0",
      longitude     |-> IF Has(v, "longitude") THEN v["longitude"] ELSE "0.0",
      raw_data      |-> v ]

\* the error DeviceData(...) raises on payload v, its arguments being
\* evaluated in the order written, or "none"
RecordError(v) ==
    IF ~Has(v, "personality") THEN "KeyError"
    ELSE IF Has(v, "system-ip") /\ ~IsAddress(v["system-ip"]) THEN "AddressValueError"
    ELSE IF ~Has(v, "validity") THEN "KeyError"
    ELSE "none"

\* the keys of a dict built from the elements of lst, in insertion order
RECURSIVE KeyOrder(_)
KeyOrder(lst) ==
    IF lst = <<>> THEN <<>>
    ELSE LET r == KeyOrder(SubSeq(lst, 1, Len(lst) - 1))
             u == Last(lst)["uuid"]
         IN  IF \E i \in 1..Len(r) : r[i] = u THEN r ELSE Append(r, u)

\* get_devices after get_all returned results: the three dict comprehensions,
\* the merge and the DeviceData loop, which stops at the first payload, in
\* the order of the merged dict, whose record cannot be built
GetDevicesBody(results) ==
    IF \E k \in 1..DevicesFanOut : results[k].t # "list" THEN Raise("TypeError")
    ELSE IF \E k \in 1..DevicesFanOut : \E i \in 1..Len(results[k].v) : ~Has(results[k].v[i], "uuid")
         THEN Raise("KeyError")
    ELSE LET merged == MergeInventory(ByUuid(results[1].v), ByUuid(results[2].v),
                                      ByUuid(results[3].v))
             order == KeyOrder(results[1].v \o results[2].v)
             bad == {i \in 1..Len(order) : RecordError(merged[order[i]]) # "none"}
         IN  IF bad # {}
             THEN Raise(RecordError(merged[order[CHOOSE i \in bad : \A j \in bad : i <= j]]))
             ELSE Ret([t |-> "devices",
                       v |-> <<[u \in {merged[e]["uuid"] : e \in DOMAIN merged} |->
                                  DeviceData(merged[CHOOSE e \in DOMAIN merged : merged[e]["uuid"] = u])]>>])

----------------------------------------------------------------------------
(* State *)

Calls == 1..MaxCalls

SingleKinds == {"get", "post", "get_device_interfaces", "get_device_tlocs",
                "get_device_vrrp", "get_device_template_values"}
BatchKinds == {"get_devices", "get_all"}

\* the devices handed to get_device_template_values
Devices == { [uuid |-> "u1", template_id |-> "t1"],
             [uuid |-> "u1", template_id |-> "None"],
             [uuid |-> "", template_id |-> "t1"] }
AnyDevice == [uuid |-> "u1", template_id |-> "t1"]

IdleCall == [pc |-> "idle", kind |-> "none", dev |-> AnyDevice, resp |-> NotAsked,
             out |-> Ret(None), nreq |-> 0]

NoGather == [st |-> "none", owner |-> 0, nfinished |-> 0, out |-> Ret(None)]

NewOp == [st |-> "created", resp |-> NotAsked, out |-> Ret(None)]

Step(i) == [k |-> "step", i |-> i]
DoneCallback(i) == [k |-> "callback", i |-> i]
WakeCaller == [k |-> "wake", i |-> 0]

Method(kind) == IF kind \in {"post", "get_device_template_values"} THEN "POST" ELSE "GET"

Endpoint(kind) ==
    CASE kind = "get_device_interfaces" -> <<"device", "interface", "synced">>
      [] kind = "get_device_tlocs" -> <<"device", "omp", "tlocs", "advertised">>
      [] kind = "get_device_vrrp" -> <<"device", "vrrp">>
      [] kind = "get_device_template_values" -> <<"template", "device", "config", "input">>
      [] OTHER -> <<"endpoint">>

\* the accessor's result, given what __get / __post did
Finish(kind, p) ==
    CASE kind = "get" -> PublicGet(p)
      [] kind = "post" -> PublicPost(p)
      [] kind = "get_device_template_values" -> TemplateResult(PublicPost(p))
      [] OTHER -> ListAccessor(kind, PublicGet(p))

----------------------------------------------------------------------------
(* Construction *)

\* Vmanage(host, username, password, semaphore=k): __init__ with its __login
Construct(lr, tr) ==
    /\ phase = "new"
    /\ LET r == Login(lr, tr)
       IN  /\ phase' = IF r.out.tag = "raise" THEN "raised" ELSE "ready"
           /\ connected' = (r.out.tag = "return" /\ r.out.val)
           /\ initErr' = r.out.err
           /\ headers' = r.headers
           /\ base_url' = r.base_url
           /\ sent' = sent \cup r.sent
           /\ loginResp' = lr
           /\ tokenResp' = r.token
    /\ UNCHANGED <<semaphore, calls, batchVars, mergeVars>>

----------------------------------------------------------------------------
(* Single-request accessors *)

\* the application awaits get, post or a per-device accessor: the coroutine
\* runs up to its first suspension, or to its end if it never suspends
CallStart(c, kind, dev) ==
    /\ phase = "ready"
    /\ calls[c].pc = "idle"
    /\ gather.st = "none"
    /\ kind # "get_device_template_values" => dev = AnyDevice
    /\ IF kind = "get_device_template_values" /\ TemplateGuard(dev)
       THEN /\ calls' = [calls EXCEPT ![c] = [IdleCall EXCEPT !.pc = "done", !.kind = kind,
                                                !.dev = dev, !.out = Ret(None)]]
            /\ sent' = sent
       ELSE IF ~PrivGuard(connected)
       THEN /\ calls' = [calls EXCEPT ![c] = [IdleCall EXCEPT !.pc = "done", !.kind = kind,
                                                !.dev = dev, !.out = Finish(kind, PrivSkipped)]]
            /\ sent' = sent
       ELSE /\ calls' = [calls EXCEPT ![c] = [IdleCall EXCEPT !.pc = "awaiting", !.kind = kind,
                                                !.dev = dev, !.nreq = 1]]
            /\ sent' = sent \cup {Request(Method(kind), base_url \o Endpoint(kind),
                                          RequestHeaders(headers), <<c, 0>>)}
    /\ UNCHANGED <<clientVars, batchVars, mergeVars>>

\* every answer a data endpoint may give
AllDataResponses == UNION {DataResponses(kind) : kind \in SingleKinds}

\* the transport answers the request of call c and the coroutine runs to its end
CallRespond(c, resp) ==
    /\ calls[c].pc = "awaiting"
    /\ resp \in DataResponses(calls[c].kind)
    /\ IF Resend(PrivResult(resp))
       THEN /\ calls' = [calls EXCEPT ![c].nreq = calls[c].nreq + 1]
            /\ sent' = sent \cup {Request(Method(calls[c].kind),
                                          base_url \o Endpoint(calls[c].kind),
                                          RequestHeaders(headers), <<c, calls[c].nreq>>)}
       ELSE /\ calls' = [calls EXCEPT ![c].pc = "done", ![c].resp = resp,
                                     ![c].out = Finish(calls[c].kind, PrivResult(resp))]
            /\ sent' = sent
    /\ UNCHANGED <<clientVars, batchVars, mergeVars>>

----------------------------------------------------------------------------
(* Bounded Concurrent Executor: get_all, and get_devices on top of it *)

\* asyncio.Semaphore(self.semaphore): the permits of a fresh semaphore
Permits(k) == k

\* a sem_task that enters without regard for the semaphore
MayEnterUnbounded(sv, w) == TRUE

\* async with semaphore, on entry: the permit is taken at once when one is
\* free and nobody queues for it, otherwise the sem_task joins the waiters
MayEnter(sv, w) == sv > 0 /\ w = <<>>

\* a semaphore whose newest waiter is served first
EnqueueFront(w, i) == <<i>> \o w

\* Semaphore.acquire with no permit free: the waiter joins the end of the queue
Enqueue(w, i) == Append(w, i)

\* the batch as one value: its sem_tasks, semaphore, loop queue and the
\* requests its running step hands to the transport
Batch(os, sv, w, rd, rq, fs) ==
    [ops |-> os, semValue |-> sv, waiters |-> w, ready |-> rd, req |-> rq, finished |-> fs]

\* an "async with" that keeps the permit when its body raises
ReleasedUnlessRaised(b, i, out) ==
    LET fin == [b.ops[i] EXCEPT !.st = IF out.tag = "raise" THEN "failed" ELSE "done",
                                !.out = out]
    IN  IF out.tag = "raise"
        THEN Batch([b.ops EXCEPT ![i] = fin], b.semValue, b.waiters,
                   Append(b.ready, DoneCallback(i)), b.req, Append(b.finished, i))
        ELSE IF b.waiters = <<>>
        THEN Batch([b.ops EXCEPT ![i] = fin], b.semValue + 1, b.waiters,
                   Append(b.ready, DoneCallback(i)), b.req, Append(b.finished, i))
        ELSE Batch([b.ops EXCEPT ![i] = fin, ![Head(b.waiters)].st = "woken"],
                   b.semValue, Tail(b.waiters),
                   b.ready \o <<Step(Head(b.waiters)), DoneCallback(i)>>, b.req,
                   Append(b.finished, i))

\* sem_task i leaves "async with semaphore" with outcome out and finishes: the
\* permit goes to the first waiter, which is made ready, or back to the
\* semaphore; then the task's done callback is made ready
Released(b, i, out) ==
    LET fin == [b.ops[i] EXCEPT !.st = IF out.tag = "raise" THEN "failed" ELSE "done",
                                !.out = out]
    IN  IF b.waiters = <<>>
        THEN Batch([b.ops EXCEPT ![i] = fin], b.semValue + 1, b.waiters,
                   Append(b.ready, DoneCallback(i)), b.req, Append(b.finished, i))
        ELSE Batch([b.ops EXCEPT ![i] = fin, ![Head(b.waiters)].st = "woken"],
                   b.semValue, Tail(b.waiters),
                   b.ready \o <<Step(Head(b.waiters)), DoneCallback(i)>>, b.req,
                   Append(b.finished, i))

\* sem_task i holds a permit and awaits its operation, a get of this client
Entered(b, i) ==
    IF ~PrivGuard(connected)
    THEN Released(b, i, PublicGet(PrivSkipped))
    ELSE Batch([b.ops EXCEPT ![i].st = "inflight"], b.semValue, b.waiters, b.ready,
               {Request("GET", base_url \o <<"endpoint">>, RequestHeaders(headers),
                        <<gather.owner, i>>)}, b.finished)

\* one step of sem_task i, up to its next suspension
TaskStep(b, i) ==
    CASE b.ops[i].st = "created" ->
            IF MayEnter(b.semValue, b.waiters)
            THEN Entered([b EXCEPT !.semValue = b.semValue - 1], i)
            ELSE [b EXCEPT !.ops[i].st = "waiting", !.waiters = Enqueue(b.waiters, i)]
      [] b.ops[i].st = "woken" -> Entered(b, i)
      [] b.ops[i].st = "resumable" -> Released(b, i, PublicGet(PrivResult(b.ops[i].resp)))
      [] OTHER -> b

\* results collected in the reverse of the order of the children
GatherResultsReversed(os) ==
    [t |-> "results", v |-> [i \in 1..Len(os) |-> os[Len(os) + 1 - i].out.val]]

\* a gather that keeps a failed child's place and goes on (return_exceptions)
GatherOnDoneSwallow(g, os, i) ==
    IF g.st # "pending" THEN g
    ELSE IF g.nfinished + 1 = Len(os)
         THEN [g EXCEPT !.st = "resolved", !.nfinished = g.nfinished + 1,
                        !.out = Ret([t |-> "results",
                                     v |-> [j \in 1..Len(os) |-> os[j].out.val]])]
    ELSE [g EXCEPT !.nfinished = g.nfinished + 1]

\* the results of the children, in the order of the children
GatherResults(os) == [t |-> "results", v |-> [i \in 1..Len(os) |-> os[i].out.val]]

\* asyncio.gather(*children): its callback for child i having finished
GatherOnDone(g, os, i) ==
    IF g.st # "pending" THEN g
    ELSE IF os[i].st = "failed" THEN [g EXCEPT !.st = "resolved", !.out = Raise(os[i].out.err)]
    ELSE IF g.nfinished + 1 = Len(os)
         THEN [g EXCEPT !.st = "resolved", !.nfinished = g.nfinished + 1,
                        !.out = Ret(GatherResults(os))]
    ELSE [g EXCEPT !.nfinished = g.nfinished + 1]

\* what the caller of get_all makes of its outcome
BatchFinish(kind, o) ==
    IF kind = "get_devices" /\ o.tag = "return" THEN GetDevicesBody(o.val.v) ELSE o

\* the application awaits get_all(tasks) with n gets, or get_devices(): the
\* semaphore is made, gather wraps every sem_task in a task and the caller
\* suspends on the outer future.  The application runs one batch, and does
\* not overlap it with the single-request accessors.
BatchStart(c, kind, n) ==
    /\ phase = "ready"
    /\ \A d \in Calls : calls[d].pc = "idle"
    /\ gather.st = "none"
    /\ kind = "get_devices" => n = DevicesFanOut
    /\ calls' = [calls EXCEPT ![c] = [IdleCall EXCEPT !.pc = "gathering", !.kind = kind]]
    /\ ops' = [i \in 1..n |-> NewOp]
    /\ semValue' = Permits(semaphore)
    /\ waiters' = <<>>
    /\ ready' = [i \in 1..n |-> Step(i)]
    /\ gather' = [NoGather EXCEPT !.st = "pending", !.owner = c]
    /\ finished' = <<>>
    /\ UNCHANGED <<clientVars, sent, mergeVars>>

\* the event loop runs the first ready callback
RunReady ==
    /\ ready # <<>>
    /\ LET e == Head(ready)
           b == Batch(ops, semValue, waiters, Tail(ready), {}, finished)
       IN  CASE e.k = "step" ->
                   LET nb == TaskStep(b, e.i)
                   IN  /\ ops' = nb.ops
                       /\ semValue' = nb.semValue
                       /\ waiters' = nb.waiters
                       /\ ready' = nb.ready
                       /\ sent' = sent \cup nb.req
                       /\ finished' = nb.finished
                       /\ UNCHANGED <<gather, calls>>
             [] e.k = "callback" ->
                   LET g == GatherOnDone(gather, ops, e.i)
                   IN  /\ gather' = g
                       /\ ready' = IF g.st = "resolved" /\ gather.st = "pending"
                                   THEN Append(Tail(ready), WakeCaller) ELSE Tail(ready)
                       /\ UNCHANGED <<ops, semValue, waiters, sent, calls, finished>>
             [] OTHER ->
                   /\ gather' = [gather EXCEPT !.st = "delivered"]
                   /\ calls' = [calls EXCEPT ![gather.owner].pc = "done",
                                             ![gather.owner].out =
                                                 BatchFinish(calls[gather.owner].kind, gather.out)]
                   /\ ready' = Tail(ready)
                   /\ UNCHANGED <<ops, semValue, waiters, sent, finished>>
    /\ UNCHANGED <<clientVars, mergeVars>>

\* the transport answers the request of sem_task i, which becomes ready
IoComplete(i, resp) ==
    /\ i \in 1..Len(ops)
    /\ ops[i].st = "inflight"
    /\ ops' = [ops EXCEPT ![i].st = "resumable", ![i].resp = resp]
    /\ ready' = Append(ready, Step(i))
    /\ UNCHANGED <<clientVars, sent, calls, semValue, waiters, gather, finished, mergeVars>>

----------------------------------------------------------------------------
(* Specification of the client *)

Init ==
    /\ phase = "new"
    /\ connected = FALSE
    /\ headers = <<>>
    /\ base_url = Origin
    /\ semaphore \in 1..MaxSem
    /\ loginResp = NotAsked
    /\ tokenResp = NotAsked
    /\ initErr = "none"
    /\ sent = {}
    /\ calls = [c \in Calls |-> IdleCall]
    /\ ops = <<>>
    /\ semValue = 0
    /\ waiters = <<>>
    /\ ready = <<>>
    /\ gather = NoGather
    /\ finished = <<>>
    /\ rawLists = <<>>
    /\ devOut = Pending

\* the answers the controller gives the gets of a batch handed to get_all
GatherResponses ==
    {TransportError, Response(403, <<>>, <<>>),
     Response(StatusOK, <<"{", "data", "[]", "}">>, <<>>),
     Response(StatusOK, <<"{", "data", "[e]", "}">>, <<>>),
     Response(StatusOK, <<"{", "metadata", "x", "}">>, <<>>)}

Next ==
    \/ \E lr \in LoginResponses, tr \in TokenResponses : Construct(lr, tr)
    \/ \E c \in Calls, kind \in SingleKinds, dev \in Devices : CallStart(c, kind, dev)
    \/ \E c \in Calls, resp \in AllDataResponses : CallRespond(c, resp)
    \/ \E c \in Calls : BatchStart(c, "get_devices", DevicesFanOut)
    \/ RunReady
    \/ \E i \in 1..DevicesFanOut, resp \in DataResponses("get") : IoComplete(i, resp)

Spec == Init /\ [][Next]_vars

----------------------------------------------------------------------------
(* Specification of the executor: a constructed client, connected or not,   *)
(* is handed one batch of 1..MaxOps gets through get_all                    *)

GoodLogin == Response(StatusOK, <<>>, <<"JSESSIONID=a", "Path=/", "HttpOnly">>)
BadLogin == Response(StatusOK, <<"<html>", "login">>, <<>>)
GoodToken == Response(StatusOK, <<"tok1">>, <<>>)

InitGather ==
    /\ \E lr \in {GoodLogin, BadLogin} :
          LET r == Login(lr, GoodToken)
          IN  /\ connected = r.out.val
              /\ headers = r.headers
              /\ base_url = r.base_url
              /\ sent = r.sent
              /\ loginResp = lr
              /\ tokenResp = r.token
    /\ phase = "ready"
    /\ initErr = "none"
    /\ semaphore \in 1..MaxSem
    /\ calls = [c \in Calls |-> IdleCall]
    /\ ops = <<>>
    /\ semValue = 0
    /\ waiters = <<>>
    /\ ready = <<>>
    /\ gather = NoGather
    /\ finished = <<>>
    /\ rawLists = <<>>
    /\ devOut = Pending

NextGather ==
    \/ \E n \in 1..MaxOps : BatchStart(1, "get_all", n)
    \/ RunReady
    \/ \E i \in 1..MaxOps, resp \in GatherResponses : IoComplete(i, resp)

SpecGather == InitGather /\ [][NextGather]_vars

\* the event loop keeps running its ready callbacks, and the transport
\* answers every request in the end
GatherFairness ==
    /\ WF_vars(RunReady)
    /\ \A i \in 1..MaxOps : WF_vars(\E resp \in GatherResponses : IoComplete(i, resp))

SpecGatherFair == SpecGather /\ GatherFairness

----------------------------------------------------------------------------
(* Specification of the device merge: get_devices from the point where      *)
(* get_all has returned the three raw results                               *)

UUIDs == {"u1", "u2", "u3"}

\* a record of /system/device/controllers
ControllerEntry(u) ==
    [uuid |-> u, personality |-> "vsmart", validity |-> "valid"] @@
    ("host-name" :> "ctl") @@ ("deviceModel" :> <<"vsmart">>)

\* a record of /system/device/vedges
EdgeEntry(u) ==
    [uuid |-> u, personality |-> "vedge", validity |-> "valid", templateId |-> "t1"] @@
    ("host-name" :> "edge") @@ ("deviceModel" :> <<"vedge-", "cloud">>)

\* a record of /system/device/vedges for a device not yet validated
BareEdgeEntry(u) == [uuid |-> u, personality |-> "vedge"]

\* a record of /device
StatusEntry(u) ==
    [uuid |-> u, personality |-> "vedge", validity |-> "valid", reachability |-> "reachable"] @@
    ("host-name" :> "live") @@ ("system-ip" :> <<10, 0, 0, 1>>)

ControllerEntries == {ControllerEntry(u) : u \in UUIDs}
EdgeEntries == {EdgeEntry(u) : u \in UUIDs} \cup {BareEdgeEntry("u2")}
StatusEntries == {StatusEntry(u) : u \in UUIDs}

\* what get gives for an inventory endpoint: None, or its data list
RawResults(S) == {None} \cup {List(l) : l \in UNION {[1..n -> S] : n \in 0..MaxList}}

InitDevices ==
    /\ rawLists \in RawResults(ControllerEntries) \X RawResults(EdgeEntries)
                    \X RawResults(StatusEntries)
    /\ devOut = Pending
    /\ phase = "ready"
    /\ connected = TRUE
    /\ headers = Login(GoodLogin, GoodToken).headers
    /\ base_url = Login(GoodLogin, GoodToken).base_url
    /\ semaphore = 1
    /\ loginResp = GoodLogin
    /\ tokenResp = GoodToken
    /\ initErr = "none"
    /\ sent = Login(GoodLogin, GoodToken).sent
    /\ calls = [c \in Calls |-> IdleCall]
    /\ ops = <<>>
    /\ semValue = 0
    /\ waiters = <<>>
    /\ ready = <<>>
    /\ gather = NoGather
    /\ finished = <<>>

\* get_devices, lines 172-204, on the raw results
MergeDevices ==
    /\ devOut.tag = "pending"
    /\ Len(rawLists) = DevicesFanOut
    /\ devOut' = GetDevicesBody(rawLists)
    /\ UNCHANGED <<clientVars, sent, calls, batchVars, rawLists>>

NextDevices == MergeDevices

SpecDevices == InitDevices /\ [][NextDevices]_vars

----------------------------------------------------------------------------
(* Specification of the device record: get_devices from the point where     *)
(* get_all has returned one raw payload, in the vedges list                 *)

\* the ways a raw payload has or lacks key k
Maybe(k, vals) == {<<>>} \cup {(k :> x) : x \in vals}

\* the fields get_devices copies as they are
PlainFields ==
    ("system-ip" :> <<10, 0, 0, 1>>) @@ ("host-name" :> "edge") @@ ("site-id" :> "100") @@
    ("version" :> "20.9") @@ ("templateId" :> "t1") @@ ("template" :> "branch") @@
    ("latitude" :> "45.5") @@ ("longitude" :> "7.5")

\* all of them, all but one of them, or none of them
PlainChoices ==
    {PlainFields, <<>>} \cup
    {[k \in DOMAIN PlainFields \ {x} |-> PlainFields[k]] : x \in DOMAIN PlainFields}

\* deviceModel strings: vedge-cloud, vedge-2000, C8000v, x-vedge-1, mycloud
Models == {<<"vedge-", "cloud">>, <<"vedge-", "2000">>, <<"C8000v">>,
           <<"x-", "vedge-", "1">>, <<"my", "cloud">>}

\* raw device payloads that carry the identifier
Payloads ==
    {[uuid |-> "u1"] @@ a @@ b @@ c @@ d @@ e @@ f @@ g :
        a \in Maybe("personality", {"vedge"}),
        b \in Maybe("validity", {"valid", "invalid", "Valid"}),
        c \in Maybe("managed-by", {"Unmanaged", "vmanage", "unknown"}),
        d \in Maybe("configStatusMessage", {"In Sync", "Out of Sync", "in sync"}),
        e \in Maybe("reachability", {"reachable", "unreachable"}),
        f \in Maybe("deviceModel", Models),
        g \in PlainChoices}

InitRecord ==
    /\ rawLists \in {<<List(<<>>), List(<<v>>), List(<<>>)>> : v \in Payloads}
    /\ devOut = Pending
    /\ phase = "ready"
    /\ connected = TRUE
    /\ headers = Login(GoodLogin, GoodToken).headers
    /\ base_url = Login(GoodLogin, GoodToken).base_url
    /\ semaphore = 1
    /\ loginResp = GoodLogin
    /\ tokenResp = GoodToken
    /\ initErr = "none"
    /\ sent = Login(GoodLogin, GoodToken).sent
    /\ calls = [c \in Calls |-> IdleCall]
    /\ ops = <<>>
    /\ semValue = 0
    /\ waiters = <<>>
    /\ ready = <<>>
    /\ gather = NoGather
    /\ finished = <<>>

SpecRecord == InitRecord /\ [][NextDevices]_vars

----------------------------------------------------------------------------
(* Properties of the executor (SpecGather) *)

OpIds == 1..Len(ops)
Started(i) == ops[i].st \in {"inflight", "resumable", "done", "failed"}
Finished(i) == ops[i].st \in {"done", "failed"}
ActiveOps == {i \in OpIds : Started(i) /\ ~Finished(i)}
BatchCall == calls[1]

\* C1: at most K (the client's concurrency limit) operations of a batch have
\* started and not yet finished, and an operation beyond the first K has
\* started only if an earlier operation has finished.
C1_BoundedInFlight ==
    /\ Cardinality(ActiveOps) <= semaphore
    /\ \A i \in OpIds : (Started(i) /\ i > semaphore) => \E j \in 1..(i - 1) : Finished(j)

\* C1 witness: a batch larger than K with K operations in flight, one of them
\* beyond the first K, and another still queueing for a permit
C1_Witness ==
    /\ Len(ops) > semaphore
    /\ Cardinality(ActiveOps) = semaphore
    /\ \E i \in OpIds : i > semaphore /\ ops[i].st = "inflight"
    /\ \E i \in OpIds : ops[i].st = "waiting"

\* what the get behind sem_task i gave, from the controller's answer to it
OperationResult(i) ==
    IF connected THEN PublicGet(PrivResult(ops[i].resp)).val ELSE None

\* C2: when get_all returns, the sequence it returns is as long as the batch
\* and its i-th element is the result of the i-th operation, whatever the
\* order in which the operations finished.
C2_PositionalResults ==
    (BatchCall.pc = "done" /\ BatchCall.out.tag = "return") =>
        /\ Len(BatchCall.out.val.v) = Len(ops)
        /\ \A i \in OpIds : BatchCall.out.val.v[i] = OperationResult(i)

\* C2 witness: get_all returned three results, the first unlike the second,
\* where the second operation finished before the first
C2_Witness ==
    /\ BatchCall.pc = "done"
    /\ BatchCall.out.tag = "return"
    /\ finished = <<2, 1, 3>>
    /\ BatchCall.out.val.v[1] # BatchCall.out.val.v[2]

FailedOps == {i \in OpIds : ops[i].st = "failed"}
FirstFailed == finished[CHOOSE k \in 1..Len(finished) :
                  /\ finished[k] \in FailedOps
                  /\ \A m \in 1..(k - 1) : finished[m] \notin FailedOps]

\* C9: get_all returns a result sequence only if every operation of the batch
\* finished without error; if it raises, it raises the error of the operation
\* that failed first; and once every task of the batch has finished, the
\* caller has got the outcome (a failure is not left pending or dropped).
C9_BatchFails ==
    /\ (BatchCall.pc = "done" /\ BatchCall.out.tag = "return") =>
          \A i \in OpIds : ops[i].st = "done"
    /\ (BatchCall.pc = "done" /\ BatchCall.out.tag = "raise") =>
          /\ FailedOps # {}
          /\ BatchCall.out.err = ops[FirstFailed].out.err
    /\ (gather.st # "none" /\ ready = <<>> /\ \A i \in OpIds : Finished(i)) =>
          /\ BatchCall.pc = "done"
          /\ FailedOps # {} => BatchCall.out.tag = "raise"

\* C9 witness: get_all raised the error of a failed operation while one
\* sibling had finished with a result and another had not yet finished
C9_Witness ==
    /\ BatchCall.pc = "done"
    /\ BatchCall.out.tag = "raise"
    /\ \E i \in OpIds : ops[i].st = "done"
    /\ \E i \in OpIds : ops[i].st = "inflight"

\* the sem_tasks that hold a permit
Holders == {i \in OpIds : ops[i].st \in {"woken", "inflight", "resumable"}}
Admitted(i) == ops[i].st = "woken" \/ Started(i)

\* C17: the operations of a batch get their permit, and start, in submission
\* order: in every state the admitted ones and the started ones are each
\* the first so many of the batch.
C17_FifoAdmission ==
    \A i, j \in OpIds : i < j =>
        /\ Started(j) => Started(i)
        /\ Admitted(j) => Admitted(i)

\* C17 witness: with one permit and three operations, the second runs after
\* the first has finished while the third still waits
C17_Witness ==
    /\ Len(ops) = 3
    /\ Permits(semaphore) = 1
    /\ Finished(1)
    /\ ops[2].st = "inflight"
    /\ ops[3].st = "waiting"

\* the failure of the batch has been raised to the caller of get_all
Surfaced == BatchCall.pc = "done" /\ BatchCall.out.tag = "raise"

\* C18: once the failure of the batch has been raised to the caller, no
\* operation of the batch starts and no request is sent any more.
C18_FailureAbortsSiblings ==
    [][Surfaced => (sent' = sent /\ \A i \in OpIds : Started(i)' => Started(i))]_vars

AllFinished == gather.st # "none" /\ \A i \in OpIds : Finished(i)

\* C19: in every state the free permits and the permits held add up to K,
\* so that all K are free once every operation has finished, failed ones
\* included; and when the loop keeps running and every request is answered,
\* every operation of a batch is admitted and starts, every operation
\* finishes, and get_all returns or raises to its caller.
C19_AdmittedAndReleased ==
    /\ [](gather.st # "none" =>
            /\ semValue + Cardinality(Holders) = Permits(semaphore)
            /\ semValue >= 0
            /\ waiters # <<>> => semValue = 0)
    /\ [](AllFinished => (semValue = Permits(semaphore) /\ waiters = <<>>))
    /\ \A i \in 1..MaxOps : (i \in OpIds) ~> (i \in OpIds /\ Started(i))
    /\ (gather.st = "pending") ~> AllFinished
    /\ (gather.st = "pending") ~> (BatchCall.pc = "done")

\* C19 witness: a batch of three on one permit in which an operation failed
\* and two had to queue has run to its end, and the permit is free
C19_Witness ==
    /\ Len(ops) = 3
    /\ Permits(semaphore) = 1
    /\ AllFinished
    /\ BatchCall.pc = "done"
    /\ \E i \in OpIds : ops[i].st = "failed"
    /\ ops[3].st = "done"
    /\ semValue = 1

----------------------------------------------------------------------------
(* Properties of the session and the request layer (Spec) *)

Unauthenticated == phase = "ready" /\ ~connected
Authenticated == phase = "ready" /\ connected
DataRequests == {r \in sent : r.by[1] # 0}
DoneCalls == {c \in Calls : calls[c].pc = "done"}
IsNone(o) == o.tag = "return" /\ o.val.t = "none"

\* C3: on a client whose login was rejected, every accessor call (get, post,
\* get_devices, get_device_interfaces, get_device_tlocs, get_device_vrrp,
\* get_device_template_values) returns the absent value and none raises.
C3_UnauthenticatedAbsent ==
    Unauthenticated => \A c \in DoneCalls : IsNone(calls[c].out)

\* C4: on a client whose login was rejected, no call sends a request to the
\* controller, and get and post return "no data".
C4_NoRequestUnauthenticated ==
    Unauthenticated =>
        /\ DataRequests = {}
        /\ \A c \in Calls : calls[c].pc # "awaiting"
        /\ \A i \in 1..Len(ops) : ops[i].st \notin {"inflight", "resumable"}
        /\ \A c \in DoneCalls : calls[c].kind \in {"get", "post"} => IsNone(calls[c].out)

\* C4 witness: an unauthenticated client on which a get and a post have
\* returned
C4_Witness ==
    /\ Unauthenticated
    /\ \E c, d \in DoneCalls : calls[c].kind = "get" /\ calls[d].kind = "post"

\* C4 witness on the batch path: get_devices has run to its end
C4_WitnessDevices ==
    /\ Unauthenticated
    /\ \E c \in DoneCalls : calls[c].kind = "get_devices"

\* the header set of the handshake: the first segment of the login answer's
\* Set-Cookie header and the text of the token answer
HandshakeHeaders ==
    ("Content-Type" :> "application/json") @@ ("Cookie" :> loginResp.setCookie[1]) @@
    ("X-XSRF-TOKEN" :> tokenResp.text)

\* C5: once construction has ended, no operation changes the connected flag,
\* the base endpoint or the header set, and every request any call sends on
\* a connected client goes to the API root with exactly the cookie and the
\* CSRF token of the handshake.
C5_SessionImmutable ==
    /\ [](Authenticated =>
            /\ headers = HandshakeHeaders
            /\ base_url = Origin \o <<"dataservice">>
            /\ \A r \in DataRequests :
                  /\ r.hdrs = HandshakeHeaders
                  /\ SubSeq(r.url, 1, Len(base_url)) = base_url)
    /\ [][phase = "ready" =>
            /\ phase' = "ready"
            /\ UNCHANGED <<connected, headers, base_url>>]_vars

\* C5 witness: a connected client with a get and a post in flight at once
C5_Witness ==
    /\ Authenticated
    /\ \E c, d \in Calls :
          /\ calls[c].pc = "awaiting" /\ calls[c].kind = "get"
          /\ calls[d].pc = "awaiting" /\ calls[d].kind = "post"
    /\ Cardinality(DataRequests) = 2

\* C6: without a transport failure construction does not raise, and it ends
\* connected exactly when the login POST was answered 200 with a body that
\* is not HTML and the token GET was answered 200.
C6_ConstructionOutcome ==
    phase # "new" =>
        /\ initErr \in {"none", "ConnectionError"}
        /\ initErr = "ConnectionError" => (loginResp.err \/ tokenResp.err)
        /\ phase = "ready" =>
              (connected <=> (LoginAccepted(loginResp) /\ tokenResp.status = StatusOK))

\* C7: a transport failure of the login POST, the token GET or the request of
\* any call is raised to the caller as ConnectionError and never becomes "no
\* data"; an answer with a status other than 200 gives "no data" (an
\* unauthenticated client at login) and never a ConnectionError.
C7_TransportVersusNoData ==
    /\ phase # "new" =>
          /\ (loginResp.err \/ tokenResp.err) <=> initErr = "ConnectionError"
          /\ (loginResp.err \/ tokenResp.err) => phase = "raised"
          /\ (~loginResp.err /\ loginResp.status # StatusOK) => Unauthenticated
          /\ (~tokenResp.err /\ tokenResp # NotAsked /\ tokenResp.status # StatusOK)
                => Unauthenticated
    /\ \A c \in DoneCalls :
          /\ calls[c].resp.err => calls[c].out = Raise("ConnectionError")
          /\ (~calls[c].resp.err /\ calls[c].resp # NotAsked
                /\ calls[c].resp.status # StatusOK) => IsNone(calls[c].out)
          /\ calls[c].out.err = "ConnectionError" =>
                \/ calls[c].resp.err
                \/ \E i \in 1..Len(ops) : ops[i].resp.err
          /\ (calls[c].kind = "get_devices" /\ calls[c].out.tag = "return")
                => \A i \in 1..Len(ops) : ~ops[i].resp.err
    /\ \A i \in 1..Len(ops) : ops[i].st \in {"done", "failed"} =>
          /\ ops[i].resp.err => ops[i].out = Raise("ConnectionError")
          /\ (~ops[i].resp.err /\ ops[i].resp # NotAsked /\ ops[i].resp.status # StatusOK)
                => IsNone(ops[i].out)
          /\ ops[i].out.err = "ConnectionError" => ops[i].resp.err

\* C7 witness: one call raised ConnectionError on a transport failure while
\* another returned "no data" on a 403
C7_Witness ==
    \E c, d \in DoneCalls :
        /\ calls[c].resp.err /\ calls[c].out.err = "ConnectionError"
        /\ calls[d].resp.status = 403 /\ IsNone(calls[d].out)

\* the body is a JSON object with a data key
HasDataKey(txt) == IsJsonObject(txt) /\ "data" \in JsonKeys(txt)

\* C8: for get and post on a connected client, an answer with status 200
\* whose body has no data key gives the absent result and no error, and a
\* payload is returned only for status 200 with the data key present.
C8_NoDataKeyAbsent ==
    \A c \in DoneCalls :
        (calls[c].kind \in {"get", "post"} /\ calls[c].resp # NotAsked /\ ~calls[c].resp.err) =>
            /\ (calls[c].resp.status = StatusOK /\ ~HasDataKey(calls[c].resp.text))
                  => IsNone(calls[c].out)
            /\ (calls[c].out.tag = "return" /\ calls[c].out.val.t # "none")
                  => (calls[c].resp.status = StatusOK /\ HasDataKey(calls[c].resp.text))

ListKinds == {"get_device_interfaces", "get_device_tlocs", "get_device_vrrp"}

\* the calls the controller has answered
Answered == {c \in DoneCalls : calls[c].resp # NotAsked /\ ~calls[c].resp.err}

\* the answer is a 200 whose body has a data key, and the value under it
HasData(resp) == resp.status = StatusOK /\ HasDataKey(resp.text)
DataOf(resp) == JsonValue(JsonMember(resp.text, "data"))

\* C12: for get_device_interfaces, get_device_tlocs and get_device_vrrp an
\* answer without data (a status other than 200, or an empty body) gives "not
\* available", and a data list gives a list with one record per raw element,
\* the empty data list giving an empty list and not "not available".
C12_EmptyListDistinct ==
    \A c \in Answered : calls[c].kind \in ListKinds =>
        LET resp == calls[c].resp
            out == calls[c].out
        IN  /\ (resp.status # StatusOK \/ resp.text = <<>>) => IsNone(out)
            /\ (HasData(resp) /\ DataOf(resp).t = "list") =>
                  /\ out.tag = "return"
                  /\ out.val.t = "list"
                  /\ Len(out.val.v) = Len(DataOf(resp).v)
                  /\ \A i \in 1..Len(out.val.v) : out.val.v[i].raw_data = DataOf(resp).v[i]

\* the requests call c has sent
RequestsOf(c) == {r \in sent : r.by[1] = c}

\* C13: get_device_template_values returns "not available" without a request
\* for a device that lacks the identifier or the template identifier;
\* otherwise, on a connected client, it sends one POST, and once the
\* controller has answered it returns element 0 of the data list, or "not
\* available" when there is no such element (status other than 200, no data
\* key, empty list, payload that is not a list), and raises nothing.
C13_TemplateValues ==
    \A c \in Calls : (calls[c].kind = "get_device_template_values" /\ calls[c].pc # "idle") =>
        LET resp == calls[c].resp
            out == calls[c].out
        IN  /\ TemplateGuard(calls[c].dev) =>
                  (calls[c].pc = "done" /\ IsNone(out) /\ RequestsOf(c) = {})
            /\ (~TemplateGuard(calls[c].dev) /\ connected) =>
                  (Cardinality(RequestsOf(c)) = 1 /\ \A r \in RequestsOf(c) : r.method = "POST")
            /\ c \in Answered =>
                  /\ out.tag = "return"
                  /\ IF HasData(resp) /\ DataOf(resp).t = "list" /\ Len(DataOf(resp).v) > 0
                     THEN out.val = [t |-> "dict", v |-> <<DataOf(resp).v[1]>>]
                     ELSE IsNone(out)

\* the requests of the handshake
HandshakeRequests == {r \in sent : r.by[1] = 0}

\* C16: a get, a post or an accessor built on them sends at most one request
\* whatever the answer; the handshake sends at most one login POST and at
\* most one token GET, the latter only after an accepted login; a transport
\* failure or a status other than 200 ends the call at once, raised as
\* ConnectionError or returned as the empty result.
C16_NoRetry ==
    /\ \A c \in Calls : calls[c].kind \in SingleKinds =>
          /\ calls[c].nreq <= 1
          /\ Cardinality(RequestsOf(c)) = calls[c].nreq
          /\ calls[c].pc = "awaiting" => calls[c].nreq = 1
    /\ \A c \in Calls : calls[c].kind \in BatchKinds =>
          Cardinality(RequestsOf(c)) <= Len(ops)
    /\ Cardinality({r \in HandshakeRequests : r.method = "POST"}) <= 1
    /\ Cardinality({r \in HandshakeRequests : r.method = "GET"}) <= 1
    /\ Cardinality(HandshakeRequests) <= 2
    /\ phase # "new" =>
          /\ Cardinality(HandshakeRequests) = IF tokenResp = NotAsked THEN 1 ELSE 2
          /\ tokenResp # NotAsked => LoginAccepted(loginResp)
          /\ (loginResp.err \/ tokenResp.err) => phase = "raised"
    /\ \A c \in DoneCalls :
          (calls[c].kind \in SingleKinds /\ calls[c].resp # NotAsked
             /\ (calls[c].resp.err \/ calls[c].resp.status # StatusOK)) =>
                (calls[c].out = Raise("ConnectionError") \/ IsNone(calls[c].out))

\* C16 witness: after a handshake of two requests, a get whose only request
\* met a transport failure has ended with ConnectionError beside a post
\* whose only request was answered 403
C16_Witness ==
    \E c, d \in DoneCalls :
        /\ calls[c].kind = "get" /\ calls[c].resp.err /\ calls[c].nreq = 1
        /\ calls[c].out = Raise("ConnectionError")
        /\ calls[d].kind = "post" /\ calls[d].resp.status = 403 /\ calls[d].nreq = 1
        /\ IsNone(calls[d].out)
        /\ Cardinality(HandshakeRequests) = 2

----------------------------------------------------------------------------
(* Properties of the device merge (SpecDevices) *)

IdsOf(l) == {l[i]["uuid"] : i \in 1..Len(l)}
LastOf(l, u) == l[CHOOSE i \in 1..Len(l) :
                    l[i]["uuid"] = u /\ \A j \in (i + 1)..Len(l) : l[j]["uuid"] # u]
StatusOnlyKeys == {"reachability", "system-ip"}

\* C10: get_devices returns one record per identifier of the controller list
\* and the edge list together, under that identifier, and none for an
\* identifier found in the status list alone; a device that is in the status
\* list carries every status field with the status value, and its other
\* fields from its inventory record; a device that is not carries its
\* inventory record alone, with no status-only field.
C10_MergeByIdentifier ==
    devOut.tag = "return" =>
        LET devs == devOut.val.v[1]
            ctl  == rawLists[1].v
            edg  == rawLists[2].v
            sts  == rawLists[3].v
            Base(u) == IF u \in IdsOf(edg) THEN LastOf(edg, u) ELSE LastOf(ctl, u)
        IN  /\ DOMAIN devs = IdsOf(ctl) \cup IdsOf(edg)
            /\ \A u \in DOMAIN devs :
                  /\ devs[u].uuid = u
                  /\ IF u \in IdsOf(sts)
                     THEN LET st == LastOf(sts, u)
                          IN  /\ \A k \in DOMAIN st : devs[u].raw_data[k] = st[k]
                              /\ \A k \in DOMAIN Base(u) \ DOMAIN st :
                                    devs[u].raw_data[k] = Base(u)[k]
                              /\ DOMAIN devs[u].raw_data = DOMAIN st \cup DOMAIN Base(u)
                              /\ devs[u].hostname = st["host-name"]
                              /\ devs[u].persona = st["personality"]
                              /\ devs[u].is_reachable = (st["reachability"] = "reachable")
                              /\ devs[u].system_ip = <<"IPv4Address", st["system-ip"]>>
                     ELSE /\ devs[u].raw_data = Base(u)
                          /\ DOMAIN devs[u].raw_data \cap StatusOnlyKeys = {}
                          /\ devs[u].hostname = Base(u)["host-name"]
                          /\ ~devs[u].is_reachable
                          /\ devs[u].system_ip = <<"None">>

\* C10 witness: a controller with a status record that disagrees on the host
\* name, an edge without a status record, and a status record of a device in
\* neither list
C10_Witness ==
    /\ devOut.tag = "return"
    /\ rawLists[1].v = <<ControllerEntry("u1")>>
    /\ rawLists[2].v = <<EdgeEntry("u2")>>
    /\ rawLists[3].v = <<StatusEntry("u1"), StatusEntry("u3")>>
    /\ DOMAIN devOut.val.v[1] = {"u1", "u2"}
    /\ devOut.val.v[1]["u1"].hostname = "live"
    /\ devOut.val.v[1]["u2"].hostname = "edge"

----------------------------------------------------------------------------
(* Properties of the device record (SpecRecord) *)

\* the one raw payload handed to get_devices, and the record made of it
RawPayload == rawLists[2].v[1]
Built == devOut.tag = "return"
Record == devOut.val.v[1][RawPayload["uuid"]]

\* C11: a raw payload that has the identifier gives a record and no error,
\* and every field it lacks has its neutral default in the record (None,
\* 0.0 or false)
C11_AbsentFieldsDefault ==
    devOut.tag # "pending" =>
        /\ Built
        /\ LET v == RawPayload
               d == Record
           IN  /\ ~Has(v, "personality") => d.persona = "None"
               /\ ~Has(v, "validity") => ~d.is_valid
               /\ ~Has(v, "managed-by") => ~d.is_managed
               /\ ~Has(v, "configStatusMessage") => ~d.is_sync
               /\ ~Has(v, "reachability") => ~d.is_reachable
               /\ ~Has(v, "system-ip") => d.system_ip = <<"None">>
               /\ ~Has(v, "host-name") => d.hostname = "None"
               /\ ~Has(v, "site-id") => d.site_id = "None"
               /\ ~Has(v, "deviceModel") => d.model = <<"None">>
               /\ ~Has(v, "version") => d.version = "None"
               /\ ~Has(v, "templateId") => d.template_id = "None"
               /\ ~Has(v, "template") => d.template_name = "None"
               /\ ~Has(v, "latitude") => d.latitude = "0.0"
               /\ ~Has(v, "longitude") => d.longitude = "0.0"

\* C14 as stated: every health flag is true only for its sentinel, "Unmanaged"
\* gives not managed, and any other string value gives false for every flag
C14_OtherValueFalse ==
    Built =>
        LET v == RawPayload
            d == Record
        IN  /\ d.is_valid => v["validity"] = "valid"
            /\ d.is_sync => v["configStatusMessage"] = "In Sync"
            /\ d.is_reachable => v["reachability"] = "reachable"
            /\ (Has(v, "managed-by") /\ v["managed-by"] = "Unmanaged") => ~d.is_managed
            /\ (Has(v, "managed-by") /\ v["managed-by"] # "Unmanaged") => ~d.is_managed

\* C14, amended: is_valid, is_sync and is_reachable are true exactly for the
\* sentinels "valid", "In Sync" and "reachable", and false for every other
\* string; is_managed is false exactly for "Unmanaged" or an absent
\* management state, and true for every other string
C14_FlagsBySentinel ==
    Built =>
        LET v == RawPayload
            d == Record
        IN  /\ d.is_valid <=> v["validity"] = "valid"
            /\ d.is_sync <=> (Has(v, "configStatusMessage") /\ v["configStatusMessage"] = "In Sync")
            /\ d.is_reachable <=> (Has(v, "reachability") /\ v["reachability"] = "reachable")
            /\ d.is_managed <=> (Has(v, "managed-by") /\ v["managed-by"] # "Unmanaged")

\* a record built from unrecognized values of all four fields: managed, and
\* neither valid, in sync nor reachable
C14_Witness ==
    /\ Built
    /\ RawPayload["validity"] = "Valid"
    /\ Has(RawPayload, "managed-by") /\ RawPayload["managed-by"] = "unknown"
    /\ Has(RawPayload, "configStatusMessage") /\ RawPayload["configStatusMessage"] = "in sync"
    /\ Has(RawPayload, "reachability") /\ RawPayload["reachability"] = "unreachable"
    /\ Record.is_managed /\ ~Record.is_valid /\ ~Record.is_sync /\ ~Record.is_reachable

\* C15: "vedge-cloud" gives "vbond", "vedge-2000" gives "2000", and a model
\* string that does not begin with "vedge-" is returned unchanged
C15_ModelNormalization ==
    (Built /\ Has(RawPayload, "deviceModel")) =>
        LET m == RawPayload["deviceModel"]
        IN  /\ m = <<"vedge-", "cloud">> => Record.model = <<"vbond">>
            /\ m = <<"vedge-", "2000">> => Record.model = <<"2000">>
            /\ Head(m) # "vedge-" => Record.model = m

====
